---- MODULE Spec2Model ----
(***************************************************************************)
(* Structured telemetry generator (scripts/chatbot_training_generator.py)  *)
(* polling the toy web service (web-app/main.py).                          *)
(*                                                                         *)
(* Times are integers in microseconds.  A duration of the source is a      *)
(* float number of seconds; round(duration, 4) becomes a rounding to a     *)
(* multiple of 100 microseconds, round(duration * 1000, 2) a rounding to a *)
(* multiple of 10 microseconds.  Ratios reported with round(x, 4) are kept *)
(* in units of 1/10000, values reported with round(x, 2) in units of 1/100.*)
(***************************************************************************)
EXTENDS Integers, Sequences, FiniteSets, TLC

VARIABLES
    pc,              \* position of the process in main / run_full_telemetry_session / run_scenario
    raised,          \* the exception that ended the process, "none" while it runs
    mode,            \* "session" (no --scenario), "single" (--scenario NAME), "none" before main chose
    scenarios,       \* self.scenarios
    si,              \* index in self.scenarios of the scenario being run (1-based)
    req_i,           \* iterations of `for _ in range(requests_this_minute)` done in this batch
    now,             \* the wall clock, microseconds since the process started
    end_time,        \* run_scenario's end_time
    collected_data,  \* run_scenario's collected_data
    telemetry_data,  \* the record capture_request_telemetry returned last
    summary,         \* the summary generate_scenario_metrics returned last
    sink,            \* the lines of self.output_file
    attempts,        \* number of requests.get calls made so far
    late_wakeups,    \* number of sleeps of line 284 the host will still let last longer than asked
    pauses,          \* number of time.sleep(30) calls made so far
    args,            \* arguments of a direct call of one function (SpecCapture, SpecHealth, SpecMetrics)
    ret              \* what that call returned

vars == <<pc, raised, mode, scenarios, si, req_i, now, end_time, collected_data,
          telemetry_data, summary, sink, attempts, late_wakeups, pauses, args, ret>>

\* Python's None where a record or a list is expected
None == [none |-> TRUE]

(***************************************************************************)
(* Bounds of the model.                                                    *)
(***************************************************************************)
\* how many of the built-in scenarios a session runs
NumScenarios == 2
\* SpecMetrics tries every list of at most this many records
MaxShortList == 3
\* characters of response body beyond the preview cut that SpecCapture tries
MaxExtraChars == 2

(***************************************************************************)
(* Arithmetic helpers.                                                     *)
(***************************************************************************)
Min(a, b) == IF a <= b THEN a ELSE b

Max(a, b) == IF a >= b THEN a ELSE b

\* round(a / b) for a >= 0, b > 0, as Python's round does on the exact
\* quotient: to nearest, a tie going to the even neighbour
RoundDiv(a, b) ==
    LET q == a \div b
        r == a % b
    IN  IF 2 * r < b THEN q
        ELSE IF 2 * r > b THEN q + 1
        ELSE IF q % 2 = 0 THEN q ELSE q + 1

\* round(duration, 4): microseconds to the nearest multiple of 100
Round4(us) == RoundDiv(us, 100) * 100

\* round(duration * 1000, 2): microseconds to the nearest multiple of 10
RoundMs2(us) == RoundDiv(us, 10) * 10

RECURSIVE SumSeq(_)
SumSeq(s) == IF s = <<>> THEN 0 ELSE Head(s) + SumSeq(Tail(s))

RECURSIVE Insert(_, _)
Insert(x, s) ==
    IF s = <<>> THEN <<x>>
    ELSE IF x <= Head(s) THEN <<x>> \o s
    ELSE <<Head(s)>> \o Insert(x, Tail(s))

\* list.sort() on a list of numbers
RECURSIVE Sort(_)
Sort(s) == IF s = <<>> THEN <<>> ELSE Insert(Head(s), Sort(Tail(s)))

(***************************************************************************)
(* categorize_response_time and calculate_health_score.                    *)
(***************************************************************************)
categorize_response_time_num(num, den) ==
    \* duration = num / den microseconds, den > 0
    IF num < 100000 * den THEN "excellent"
    ELSE IF num < 500000 * den THEN "good"
    ELSE IF num < 1000000 * den THEN "acceptable"
    ELSE IF num < 3000000 * den THEN "slow"
    ELSE "unacceptable"

categorize_response_time(duration) == categorize_response_time_num(duration, 1)

StatusDeductionWrong(status_code) ==
    IF status_code >= 400 THEN 30 ELSE IF status_code >= 500 THEN 50 ELSE 0

StatusDeduction(status_code) ==
    IF status_code >= 500 THEN 50 ELSE IF status_code >= 400 THEN 30 ELSE 0

LatencyDeduction(duration) ==
    IF duration > 3000000 THEN 30
    ELSE IF duration > 1000000 THEN 15
    ELSE IF duration > 500000 THEN 5
    ELSE 0

calculate_health_score(status_code, duration) ==
    Max(0, 100 - StatusDeduction(status_code) - LatencyDeduction(duration))

(***************************************************************************)
(* The HTTP client as capture_request_telemetry sees it.                   *)
(*                                                                         *)
(* An outcome of requests.get is either an exception (exc # "none") or a   *)
(* response.  A content type is <<prefix, rest>>: the header value is the  *)
(* two concatenated, so startswith('application/json') is a test of the    *)
(* prefix.  A body is its length in characters and what response.json()    *)
(* makes of it: type "invalid" when decoding raises, else the type of the  *)
(* decoded value and which of the strings "version" and "label" the        *)
(* operator `in` finds in it (keys of an object, elements of an array,     *)
(* substrings of a string).                                                *)
(***************************************************************************)
\* the classes each exception kind of requests.exceptions is an instance of
ExceptionClasses ==
    [ ConnectionError      |-> {"ConnectionError", "RequestException"},
      SSLError             |-> {"SSLError", "ConnectionError", "RequestException"},
      ConnectTimeout       |-> {"ConnectTimeout", "ConnectionError", "Timeout", "RequestException"},
      ReadTimeout          |-> {"ReadTimeout", "Timeout", "RequestException"},
      TooManyRedirects     |-> {"TooManyRedirects", "RequestException"},
      ChunkedEncodingError |-> {"ChunkedEncodingError", "RequestException"} ]

ExceptionKinds == DOMAIN ExceptionClasses

isinstance(e, class) == class \in ExceptionClasses[e]

\* response.text[:200]
PreviewLen == 200

\* the characters of a body of n characters (the character at position i is i)
Text(n) == [i \in 1..n |-> i]

ResponsePreview(text) == SubSeq(text, 1, Min(PreviewLen, Len(text)))

IsJsonContentType(content_type) == content_type[1] = "application/json"

\* `key in json_content`: "TypeError" when the value supports no membership test
JsonContains(json, key) ==
    IF json.type \in {"number", "null"} THEN "TypeError"
    ELSE IF key \in json.has THEN "True" ELSE "False"

\* the `try` block of lines 150-159 up to the point where it ends or raises:
\* [data |-> telemetry_data as left by the block, exc |-> what it raised]
TryAttachResponseContent(td, response) ==
    IF ~IsJsonContentType(response.content_type) THEN [data |-> td, exc |-> "none"]
    ELSE IF response.body.json.type = "invalid" THEN [data |-> td, exc |-> "JSONDecodeError"]
    ELSE
        LET json == response.body.json
            td1  == td @@ [response_data |-> json]
            inV  == JsonContains(json, "version")
            inL  == JsonContains(json, "label")
            td2  == IF inV = "True"
                    THEN [td1 EXCEPT !.service = [@ EXCEPT !.version = "json.version"]]
                    ELSE td1
            td3  == IF inL = "True"
                    THEN [td2 EXCEPT !.service = @ @@ [label |-> "json.label"]]
                    ELSE td2
        IN  IF inV = "TypeError" THEN [data |-> td1, exc |-> "TypeError"]
            ELSE IF inV = "True" /\ json.type # "object"
                 THEN [data |-> td1, exc |-> "AttributeError"]
            ELSE IF inL = "True" /\ json.type # "object"
                 THEN [data |-> td2, exc |-> "AttributeError"]
            ELSE [data |-> td3, exc |-> "none"]

\* lines 149-163: the try block and its `except Exception`
AttachResponseContentNoHandler(td, response) ==
    LET t == TryAttachResponseContent(td, response)
    IN  [raised |-> t.exc, value |-> t.data]

AttachResponseContent(td, response) ==
    LET t == TryAttachResponseContent(td, response)
    IN  IF t.exc = "none"
        THEN [raised |-> "none", value |-> t.data]
        ELSE [raised |-> "none",
              value  |-> t.data @@ [response_preview |-> ResponsePreview(Text(response.body.len))]]

RequestIdOfMinute(start_time) == start_time \div 60000000

\* line 108: int(start_time * 1000000), the number in request_id (start_time is
\* in microseconds already)
RequestId(start_time) == start_time

ServiceIdentity == [name |-> "observability-demo-app", version |-> "unknown", environment |-> "local"]

ScenarioFields(scenario_context) == [name |-> scenario_context.name]

\* lines 112-147: the record of a response (url, user_agent, and the scenario's
\* description and tags repeat their inputs and are left out)
ResponseRecord(endpoint, scenario_context, start_time, response) ==
    [ timestamp  |-> start_time + response.duration,
      log_level  |-> "INFO",
      event_type |-> "http_request",
      request_id |-> RequestId(start_time),
      scenario   |-> ScenarioFields(scenario_context),
      http       |-> [ method |-> "GET",
                       endpoint |-> endpoint,
                       status_code |-> response.status_code,
                       response_time_ms |-> RoundMs2(response.duration),
                       response_size_bytes |-> response.body.len ],
      metrics    |-> [ response_time_seconds |-> Round4(response.duration),
                       response_time_category |-> categorize_response_time(response.duration),
                       success |-> response.status_code < 400,
                       client_error |-> (400 <= response.status_code /\ response.status_code < 500),
                       server_error |-> response.status_code >= 500,
                       health_score |-> calculate_health_score(response.status_code, response.duration) ],
      service    |-> ServiceIdentity ]

\* lines 167-201: the record of a transport failure
ErrorRecord(endpoint, scenario_context, start_time, e) ==
    [ timestamp  |-> start_time + e.duration,
      log_level  |-> "ERROR",
      event_type |-> "http_request_error",
      request_id |-> RequestId(start_time),
      scenario   |-> ScenarioFields(scenario_context),
      http       |-> [ method |-> "GET",
                       endpoint |-> endpoint,
                       error_type |-> e.exc,
                       response_time_ms |-> RoundMs2(e.duration) ],
      metrics    |-> [ response_time_seconds |-> Round4(e.duration),
                       success |-> FALSE,
                       timeout |-> isinstance(e.exc, "Timeout"),
                       connection_error |-> isinstance(e.exc, "ConnectionError"),
                       health_score |-> 0 ],
      service    |-> ServiceIdentity ]

\* the class named by the `except` clause of line 167
CaughtClassTimeoutOnly == "Timeout"

CaughtClass == "RequestException"

\* capture_request_telemetry: [raised |-> "none", value |-> the record returned],
\* or [raised |-> the exception that leaves the function]
capture_request_telemetry(endpoint, scenario_context, start_time, outcome) ==
    IF outcome.exc = "none"
    THEN AttachResponseContent(
             ResponseRecord(endpoint, scenario_context, start_time, outcome), outcome)
    ELSE IF isinstance(outcome.exc, CaughtClass)
    THEN [raised |-> "none", value |-> ErrorRecord(endpoint, scenario_context, start_time, outcome)]
    ELSE [raised |-> outcome.exc, value |-> None]

(***************************************************************************)
(* The toy service (web-app/main.py), run with SIM_BAD=true and            *)
(* LATENCY_SIMULATION=true: health_sim() may fail on any request and       *)
(* simulate_latency() sleeps between 0.1 s and MAX_LATENCY.                *)
(***************************************************************************)
\* the paths of the @app.route decorators
Routes == {"/", "/health", "/metrics", "/slo-config", "/users"}

\* whether the handler of a route calls simulate_latency / health_sim
CallsSimulateLatency(path) == path \in {"/", "/users"}

CallsHealthSim(path) == path \in {"/", "/health", "/users"}

\* values random.uniform(0.1, MAX_LATENCY) is given in the model, microseconds
SimulatedLatencies == {100000, 1900000}

\* time a request takes besides the latency the handler simulates, microseconds
NetworkTime == 4000

TextBody(n) == [len |-> n, json |-> [type |-> "invalid", has |-> {}]]

JsonObjectBody(n, keys) == [len |-> n, json |-> [type |-> "object", has |-> keys]]

HtmlType == <<"text/html", "; charset=utf-8">>

JsonType == <<"application/json", "">>

\* the response of the service to GET path; healthy is what health_sim() returns
\* and latency what simulate_latency() returns, for the handlers that call them
Serve(path, healthy, latency) ==
    LET d == NetworkTime + (IF CallsSimulateLatency(path) THEN latency ELSE 0)
        text(status, n) == [exc |-> "none", status_code |-> status, content_type |-> HtmlType,
                            body |-> TextBody(n), duration |-> d]
        json(n) == [exc |-> "none", status_code |-> 200, content_type |-> JsonType,
                    body |-> JsonObjectBody(n, {}), duration |-> d]
    IN  IF path \notin Routes THEN text(404, 207)
        ELSE IF path = "/" THEN (IF healthy THEN text(200, 48) ELSE text(503, 19))
        ELSE IF path = "/health" THEN (IF healthy THEN text(200, 2) ELSE text(500, 5))
        ELSE IF path = "/metrics" THEN text(200, 110)
        ELSE IF path = "/slo-config" THEN json(420)
        ELSE (IF healthy THEN json(230) ELSE text(503, 19))

\* a transport failure of kind e: a timeout fires after the 10 s of timeout=10
Failure(e) ==
    [exc |-> e, duration |-> IF isinstance(e, "Timeout") THEN 10002000 ELSE 1500]

\* the outcomes requests.get(base_url + endpoint, timeout=10) can have in a session
SessionFailures == {"ReadTimeout", "ConnectTimeout", "ConnectionError", "TooManyRedirects"}

GetOutcomes(endpoint) ==
    { Serve(endpoint, h, l) : h \in BOOLEAN, l \in SimulatedLatencies }
        \cup { Failure(e) : e \in SessionFailures }

(***************************************************************************)
(* generate_scenario_metrics.                                              *)
(***************************************************************************)
PercentileIndexNearestRank(n, pct) == Max(0, ((n * pct + 99) \div 100) - 1)

\* int(len(response_times) * 0.5 / 0.95 / 0.99), pct = 50 / 95 / 99, 0-based
PercentileIndex(n, pct) == (n * pct) \div 100

\* response_times[int(len(response_times) * p)] if response_times else 0
Percentile(response_times, pct) ==
    IF response_times = <<>> THEN 0
    ELSE response_times[PercentileIndex(Len(response_times), pct) + 1]

ErrorCountMissesTransport(collected_data_) ==
    Cardinality({i \in DOMAIN collected_data_ :
        collected_data_[i].event_type = "http_request" /\ ~collected_data_[i].metrics.success})

ErrorCount(collected_data_) ==
    Cardinality({i \in DOMAIN collected_data_ : ~collected_data_[i].metrics.success})

SlowCount(collected_data_) ==
    Cardinality({i \in DOMAIN collected_data_ :
        collected_data_[i].metrics.response_time_seconds > 2000000})

UnguardedCount(collected_data_) == Len(collected_data_)

\* max(1, total_requests)
GuardedCount(collected_data_) == Max(1, Len(collected_data_))

\* the exception the arithmetic and indexing of lines 300-309 raise, "none" if none:
\* a division by den = 0, or an index outside the sorted list
MetricsRaises(n, den) ==
    IF den = 0 THEN "ZeroDivisionError"
    ELSE IF n > 0 /\ \E pct \in {50, 95, 99} : PercentileIndex(n, pct) \notin 0..(n - 1)
    THEN "IndexError"
    ELSE "none"

\* generate_scenario_metrics: [raised |-> "none", value |-> the summary], or
\* [raised |-> the exception that leaves the function]
generate_scenario_metrics(collected_data_, scenario_context) ==
    LET total_requests == Len(collected_data_)
        error_count == ErrorCount(collected_data_)
        slow_count == SlowCount(collected_data_)
        den == GuardedCount(collected_data_)
        time_sum == SumSeq([i \in DOMAIN collected_data_ |->
                                collected_data_[i].metrics.response_time_seconds])
        health_sum == SumSeq([i \in DOMAIN collected_data_ |->
                                collected_data_[i].metrics.health_score])
        response_times == Sort([i \in DOMAIN collected_data_ |->
                                collected_data_[i].metrics.response_time_seconds])
    IN  IF MetricsRaises(total_requests, den) # "none"
        THEN [raised |-> MetricsRaises(total_requests, den), value |-> None]
        ELSE
        [ raised |-> "none",
          value |->
          [ log_level  |-> "INFO",
            event_type |-> "scenario_metrics",
            scenario   |-> ScenarioFields(scenario_context),
            metrics    |-> [ total_requests |-> total_requests,
                             error_count |-> error_count,
                             error_rate |-> RoundDiv(error_count * 10000, den),
                             slow_requests |-> slow_count,
                             slow_rate |-> RoundDiv(slow_count * 10000, den),
                             average_response_time_seconds |-> RoundDiv(time_sum, 100 * den) * 100,
                             average_health_score |-> RoundDiv(health_sum * 100, den),
                             response_time_percentiles |->
                                 [ p50_seconds |-> Round4(Percentile(response_times, 50)),
                                   p95_seconds |-> Round4(Percentile(response_times, 95)),
                                   p99_seconds |-> Round4(Percentile(response_times, 99)) ] ],
            operational_summary |->
                [ scenario_health |-> IF health_sum > 80 * den THEN "healthy"
                                      ELSE IF health_sum > 50 * den THEN "degraded"
                                      ELSE "unhealthy",
                  performance_category |-> categorize_response_time_num(time_sum, den),
                  reliability_score |-> RoundDiv((den - error_count) * 10000, den) ] ] ]

(***************************************************************************)
(* The generator process: main, run_full_telemetry_session, run_scenario.  *)
(***************************************************************************)
\* the list load_scenarios builds, with each duration_minutes and
\* requests_per_minute scaled down (the source's are 10..20 and 8..30)
BuiltinScenarios ==
    << [name |-> "baseline_operations",     duration_minutes |-> 1, requests_per_minute |-> 2],
       [name |-> "performance_degradation", duration_minutes |-> 2, requests_per_minute |-> 1],
       [name |-> "intermittent_failures",   duration_minutes |-> 1, requests_per_minute |-> 1],
       [name |-> "high_load_scenario",      duration_minutes |-> 1, requests_per_minute |-> 2],
       [name |-> "partial_outage",          duration_minutes |-> 1, requests_per_minute |-> 1] >>

load_scenarios == SubSeq(BuiltinScenarios, 1, Min(NumScenarios, Len(BuiltinScenarios)))

\* the endpoints list of run_scenario
endpoints == <<"/", "/health", "/users", "/version", "/slo-config">>

\* json.dumps(record) + '\n' as a line of the output file: the fields of the
\* record that identify the line (the line carries the whole record)
Line(record) ==
    [ log_level  |-> record.log_level,
      event_type |-> record.event_type,
      scenario   |-> record.scenario.name ]
        @@ (IF record.event_type = "scenario_metrics"
            THEN [total_requests |-> record.metrics.total_requests]
            ELSE [request_id |-> record.request_id])

\* a line of the session itself: it names no scenario
SessionLine(event_type) == [log_level |-> "INFO", event_type |-> event_type, scenario |-> "none"]

\* an output file left by an earlier run of the program, whose request started
\* ten minutes before this process did
EarlierFile ==
    << SessionLine("session_start"),
       [log_level |-> "INFO", event_type |-> "scenario_start", scenario |-> "baseline_operations"],
       [log_level |-> "INFO", event_type |-> "http_request", scenario |-> "baseline_operations",
        request_id |-> -600000000],
       [log_level |-> "INFO", event_type |-> "scenario_metrics", scenario |-> "baseline_operations",
        total_requests |-> 1],
       SessionLine("session_complete") >>

\* time.sleep(60 / requests_this_minute), microseconds
RequestSleep(requests_this_minute) == 60000000 \div requests_this_minute

\* time.sleep suspends the process for at least the time asked for: how much
\* longer a sleep of line 284 lasts
SleepOvershoots == {0, 60000000}

\* at most this many sleeps of one call of run_scenario last longer than asked
MaxLateWakeups == 1

BatchContinuesUntilEnd(i, requests_this_minute, t, end) ==
    i < requests_this_minute /\ t < end

\* line 274: for _ in range(requests_this_minute), i requests of the batch
\* done at time t; the end time of the scenario is not looked at
BatchContinues(i, requests_this_minute, t, end) == i < requests_this_minute

\* time.sleep(30), microseconds
ScenarioPause == 30000000

Init ==
    /\ pc = "main"
    /\ raised = "none"
    /\ mode = "none"
    /\ scenarios = <<>>
    /\ si = 0
    /\ req_i = 0
    /\ now = 0
    /\ end_time = 0
    /\ collected_data = <<>>
    /\ telemetry_data = None
    /\ summary = None
    /\ sink \in {<<>>, EarlierFile}
    /\ attempts = 0
    /\ late_wakeups = 0       \* every sleep lasts exactly as long as asked
    /\ pauses = 0
    /\ args = None
    /\ ret = None

\* an exception leaves main: the process ends
Abort(e) ==
    /\ pc' = "aborted"
    /\ raised' = e

\* main, lines 377-395; name is args.scenario, "none" when the option is not given
Main ==
    /\ pc = "main"
    /\ \E name \in {"none", "no_such_scenario"} \cup {load_scenarios[i].name : i \in DOMAIN load_scenarios} :
        IF name = "none"
        THEN /\ mode' = "session"
             /\ pc' = "session_start"
             /\ UNCHANGED <<scenarios, si>>
        ELSE /\ mode' = "single"
             /\ scenarios' = load_scenarios
             /\ IF \E i \in DOMAIN load_scenarios : load_scenarios[i].name = name
                THEN /\ si' = CHOOSE i \in DOMAIN load_scenarios : load_scenarios[i].name = name
                     /\ pc' = "scenario_start"
                ELSE /\ si' = 0
                     /\ pc' = "done"
    /\ UNCHANGED <<raised, req_i, now, end_time, collected_data, telemetry_data, summary,
                   sink, attempts, late_wakeups, pauses, args, ret>>

\* run_full_telemetry_session, lines 339-358: the file is opened with 'w'
SessionStart ==
    /\ pc = "session_start"
    /\ scenarios' = load_scenarios
    /\ \E write_ok \in BOOLEAN :
        IF write_ok
        THEN /\ sink' = << SessionLine("session_start") @@ [total_scenarios |-> Len(load_scenarios)] >>
             /\ IF Len(load_scenarios) > 0
                THEN si' = 1 /\ pc' = "scenario_start"
                ELSE si' = 0 /\ pc' = "session_complete"
             /\ UNCHANGED raised
        ELSE /\ Abort("OSError")
             /\ UNCHANGED <<sink, si>>
    /\ UNCHANGED <<mode, req_i, now, end_time, collected_data, telemetry_data, summary,
                   attempts, late_wakeups, pauses, args, ret>>

scenario_context == [name |-> scenarios[si].name]

CollectedDataKept(old) == old

\* line 268: collected_data = [] (old is the list of the call before)
CollectedDataAtStart(old) == <<>>

\* run_scenario, lines 238-268
ScenarioStart ==
    /\ pc = "scenario_start"
    /\ \E write_ok \in BOOLEAN :
        IF write_ok
        THEN /\ sink' = Append(sink, [log_level |-> "INFO", event_type |-> "scenario_start",
                                      scenario |-> scenario_context.name])
             /\ end_time' = now + scenarios[si].duration_minutes * 60000000
             /\ collected_data' = CollectedDataAtStart(collected_data)
             /\ pc' = "while"
             /\ UNCHANGED raised
        ELSE /\ Abort("OSError")
             /\ UNCHANGED <<sink, end_time, collected_data>>
    /\ UNCHANGED <<mode, scenarios, si, req_i, now, telemetry_data, summary,
                   attempts, late_wakeups, pauses, args, ret>>

\* line 270: while datetime.now() < end_time
WhileCheck ==
    /\ pc = "while"
    /\ IF now < end_time
       THEN req_i' = 0 /\ pc' = "for"
       ELSE req_i' = req_i /\ pc' = "summary"
    /\ UNCHANGED <<raised, mode, scenarios, si, now, end_time, collected_data, telemetry_data,
                   summary, sink, attempts, late_wakeups, pauses, args, ret>>

\* lines 274-284: one iteration of the for loop
Request ==
    /\ pc = "for"
    /\ req_i < scenarios[si].requests_per_minute
    /\ \E i \in DOMAIN endpoints : \E outcome \in GetOutcomes(endpoints[i]) : \E write_ok \in BOOLEAN :
       \E overshoot \in {o \in SleepOvershoots : o > 0 => late_wakeups > 0} :
        LET endpoint == endpoints[i]
            r == capture_request_telemetry(endpoint, scenario_context, now, outcome)
            requests_this_minute == scenarios[si].requests_per_minute
            woke == now + outcome.duration + RequestSleep(requests_this_minute) + overshoot
        IN  /\ attempts' = attempts + 1
            /\ IF r.raised # "none"
               THEN /\ Abort(r.raised)
                    /\ now' = now + outcome.duration
                    /\ UNCHANGED <<telemetry_data, collected_data, sink, req_i, late_wakeups>>
               ELSE /\ telemetry_data' = r.value
                    /\ collected_data' = Append(collected_data, r.value)
                    /\ IF write_ok
                       THEN /\ sink' = Append(sink, Line(r.value))
                            /\ now' = woke
                            /\ late_wakeups' = late_wakeups - (IF overshoot > 0 THEN 1 ELSE 0)
                            /\ req_i' = req_i + 1
                            /\ pc' = IF BatchContinues(req_i + 1, requests_this_minute, woke, end_time)
                                     THEN "for" ELSE "while"
                            /\ UNCHANGED raised
                       ELSE /\ Abort("OSError")
                            /\ now' = now + outcome.duration
                            /\ UNCHANGED <<sink, req_i, late_wakeups>>
    /\ UNCHANGED <<mode, scenarios, si, end_time, summary, pauses, args, ret>>

\* line 287: summary = self.generate_scenario_metrics(collected_data, scenario_context)
Summarise ==
    /\ pc = "summary"
    /\ LET r == generate_scenario_metrics(collected_data, scenario_context)
       IN  IF r.raised # "none"
           THEN /\ Abort(r.raised)
                /\ UNCHANGED summary
           ELSE /\ summary' = r.value
                /\ pc' = "write_summary"
                /\ UNCHANGED raised
    /\ UNCHANGED <<mode, scenarios, si, req_i, now, end_time, collected_data, telemetry_data,
                   sink, attempts, late_wakeups, pauses, args, ret>>

\* lines 288-292: the summary is written and run_scenario returns collected_data,
\* which ends the life of its other locals
WriteSummary ==
    /\ pc = "write_summary"
    /\ \E write_ok \in BOOLEAN :
        IF write_ok
        THEN /\ sink' = Append(sink, Line(summary))
             /\ pc' = IF mode = "single" THEN "done" ELSE "pause"
             /\ telemetry_data' = None
             /\ summary' = None
             /\ UNCHANGED raised
        ELSE /\ Abort("OSError")
             /\ UNCHANGED <<sink, telemetry_data, summary>>
    /\ UNCHANGED <<mode, scenarios, si, req_i, now, end_time, collected_data, attempts, late_wakeups, pauses,
                   args, ret>>

\* lines 358-362: time.sleep(30) after run_scenario returned, then the next scenario
Pause ==
    /\ pc = "pause"
    /\ now' = now + ScenarioPause
    /\ pauses' = pauses + 1
    /\ IF si < Len(scenarios)
       THEN si' = si + 1 /\ pc' = "scenario_start"
       ELSE si' = si /\ pc' = "session_complete"
    /\ UNCHANGED <<raised, mode, scenarios, req_i, end_time, collected_data, telemetry_data,
                   summary, sink, attempts, late_wakeups, args, ret>>

\* lines 364-375
SessionComplete ==
    /\ pc = "session_complete"
    /\ \E write_ok \in BOOLEAN :
        IF write_ok
        THEN /\ sink' = Append(sink, SessionLine("session_complete"))
             /\ pc' = "done"
             /\ UNCHANGED raised
        ELSE /\ Abort("OSError")
             /\ UNCHANGED sink
    /\ UNCHANGED <<mode, scenarios, si, req_i, now, end_time, collected_data, telemetry_data,
                   summary, attempts, late_wakeups, pauses, args, ret>>

Next ==
    \/ Main
    \/ SessionStart
    \/ ScenarioStart
    \/ WhileCheck
    \/ Request
    \/ Summarise
    \/ WriteSummary
    \/ Pause
    \/ SessionComplete

Spec == Init /\ [][Next]_vars

(***************************************************************************)
(* Properties of the generator process (Spec).                             *)
(***************************************************************************)
\* C3 (as claimed): every GET endpoint the scenario runner can pick is a route
\* the toy service exposes; no request of the runner targets a path the service
\* does not define.
C3_RequestsTargetDefinedRoutes ==
    (telemetry_data # None /\ telemetry_data.event_type = "http_request")
        => telemetry_data.http.endpoint \in Routes

\* C4 (as claimed): in a session over n scenarios exactly one 30-second pause
\* separates scenario i from scenario i + 1, and session_complete is emitted
\* after the last scenario without a further pause: n - 1 pauses in total.
C4_PausesOnlyBetweenScenarios ==
    /\ (mode = "session" /\ pc = "scenario_start") => pauses = si - 1
    /\ (mode = "session" /\ pc \in {"session_complete", "done"}) => pauses = Len(scenarios) - 1

IsRequestLine(l) == l.event_type \in {"http_request", "http_request_error"}

\* the index of the last scenario_start line before line j, 0 if there is none
RunStartBefore(j) ==
    LET starts == {s \in 1..(j - 1) : sink[s].event_type = "scenario_start"}
    IN  IF starts = {} THEN 0 ELSE CHOOSE s \in starts : \A t \in starts : t <= s

\* C5: in any sequence of runs the sink holds, for each scenario run, one
\* scenario_start record, then the request records of that run, each appended
\* right after its request completed, then one scenario_metrics record as the
\* last record of the run; the summary is computed after all requests of the run
\* over exactly the records of that run: its total_requests is the number of
\* request records between the run's scenario_start and its scenario_metrics.
C5_RunRecordOrder ==
    /\ \A j \in DOMAIN sink :
        /\ IsRequestLine(sink[j]) =>
            /\ j > 1
            /\ sink[j - 1].event_type = "scenario_start" \/ IsRequestLine(sink[j - 1])
            /\ sink[j - 1].scenario = sink[j].scenario
        /\ sink[j].event_type = "scenario_metrics" =>
            LET s == RunStartBefore(j)
            IN  /\ s > 0
                /\ \A k \in (s + 1)..(j - 1) : IsRequestLine(sink[k])
                /\ sink[j].scenario = sink[s].scenario
                /\ sink[j].total_requests = j - s - 1
        /\ (sink[j].event_type = "scenario_start" /\ j > 1) =>
            sink[j - 1].event_type \in {"session_start", "scenario_metrics", "session_complete"}
    /\ pc \in {"while", "for", "summary", "write_summary"} =>
        LET s == RunStartBefore(Len(sink) + 1)
        IN  /\ s > 0
            /\ sink[s].scenario = scenarios[si].name
            /\ Len(sink) - s = Len(collected_data)
            /\ \A i \in DOMAIN collected_data : sink[s + i] = Line(collected_data[i])
    /\ pc = "write_summary" => summary.metrics.total_requests = Len(collected_data)
    /\ (pc = "pause" \/ (pc = "done" /\ mode = "single" /\ si > 0)) =>
        /\ sink[Len(sink)].event_type = "scenario_metrics"
        /\ sink[Len(sink)].scenario = scenarios[si].name
        /\ sink[Len(sink)].total_requests = Len(collected_data)

\* the second scenario of a session has written its summary after the first
\* one wrote its own, and a request of the second one failed
C5_Witness ==
    /\ pc = "pause"
    /\ si = 2
    /\ Len(collected_data) = 2
    /\ \E i \in DOMAIN collected_data : collected_data[i].event_type = "http_request_error"
    /\ Cardinality({j \in DOMAIN sink : sink[j].event_type = "scenario_metrics"}) = 2
    /\ sink[Len(sink)].total_requests = 2

\* C6: a transport failure on a request of a scenario never aborts the scenario
\* loop and is never retried: each attempt, failed or not, is one call of the
\* HTTP client and yields exactly one record (ERROR / http_request_error when it
\* failed), appended to the collected list and, the sink being writable, to the
\* sink, and the loop goes on with the next scheduled request or, after the last
\* one, with the check of the end time that leads to the summary.
C6_FailureDoesNotAbort ==
    [][ (pc = "for" /\ attempts' # attempts) =>
            /\ attempts' = attempts + 1
            /\ raised' \in {"none", "OSError"}
            /\ Len(collected_data') = Len(collected_data) + 1
            /\ SubSeq(collected_data', 1, Len(collected_data)) = collected_data
            /\ LET rec == collected_data'[Len(collected_data')]
               IN  /\ IsRequestLine(rec)
                   /\ rec.event_type = "http_request_error" =>
                          (rec.log_level = "ERROR" /\ rec.metrics.success = FALSE)
                   /\ raised' = "none" =>
                          /\ sink' = Append(sink, Line(rec))
                          /\ req_i' = req_i + 1
                          /\ pc' = IF req_i' < scenarios[si].requests_per_minute
                                   THEN "for" ELSE "while"
      ]_vars

\* a request that failed was followed by another request of the same scenario,
\* and the scenario went on to compute its summary over both
C6_Witness ==
    /\ pc = "write_summary"
    /\ Len(collected_data) = 2
    /\ collected_data[1].event_type = "http_request_error"
    /\ collected_data[1].http.error_type = "ConnectionError"
    /\ attempts = 2
    /\ summary.metrics.total_requests = 2
    /\ summary.metrics.error_count >= 1

\* the request lines this process wrote: their request started at or after the
\* start of the process (now = 0)
OwnRequestLines == {j \in DOMAIN sink : IsRequestLine(sink[j]) /\ sink[j].request_id >= 0}

\* C11: within one process run (a session of all scenarios or one scenario) no
\* two request records, http_request or http_request_error, carry the same
\* request_id: the ids grow strictly with the order in which the records were
\* written, in the sink and in the list the scenario collects, and the record
\* of the request that has just completed carries the newest id.
C11_RequestIdsUnique ==
    /\ \A j, k \in OwnRequestLines :
        /\ j # k => sink[j].request_id # sink[k].request_id
        /\ j < k => sink[j].request_id < sink[k].request_id
    /\ \A i, j \in DOMAIN collected_data :
        i # j => collected_data[i].request_id # collected_data[j].request_id
    /\ \A j \in OwnRequestLines : sink[j].request_id < now

\* a session has written the records of two scenarios, failed requests among
\* them, and four different ids are in the sink
C11_Witness ==
    /\ mode = "session"
    /\ pc = "pause"
    /\ si = 2
    /\ Cardinality(OwnRequestLines) = 4
    /\ Cardinality({sink[j].request_id : j \in OwnRequestLines}) = 4
    /\ \E j \in OwnRequestLines : sink[j].event_type = "http_request_error"
    /\ \E j \in OwnRequestLines : sink[j].event_type = "http_request"

(***************************************************************************)
(* One call of run_scenario, as main makes it for --scenario, on a host    *)
(* that may wake the process late from its sleeps. The process runs on     *)
(* until the call returns or an exception ends it.                         *)
(***************************************************************************)
InitScenario ==
    /\ pc = "scenario_start"
    /\ raised = "none"
    /\ mode = "single"
    /\ scenarios = load_scenarios
    /\ si \in DOMAIN load_scenarios
    /\ req_i = 0
    /\ now = 0
    /\ end_time = 0
    /\ collected_data = <<>>
    /\ telemetry_data = None
    /\ summary = None
    /\ sink \in {<<>>, EarlierFile}
    /\ attempts = 0
    /\ late_wakeups \in 0..MaxLateWakeups
    /\ pauses = 0
    /\ args = None
    /\ ret = None

NextScenario ==
    \/ ScenarioStart
    \/ WhileCheck
    \/ Request
    \/ Summarise
    \/ WriteSummary

SpecScenario == InitScenario /\ [][NextScenario]_vars /\ WF_vars(NextScenario)

\* run_scenario has returned
ScenarioCompleted == pc \in {"done", "pause"}

\* the requests of the call so far come in whole batches of requests_per_minute,
\* and at its end there is at least one batch and at most one for each minute
\* of duration_minutes
WholeBatches ==
    LET requests_per_minute == scenarios[si].requests_per_minute
        issued == Len(collected_data)
    IN  /\ pc = "for" =>
            /\ req_i < requests_per_minute
            /\ issued % requests_per_minute = req_i
        /\ pc = "while" => issued % requests_per_minute = 0
        /\ (pc \in {"summary", "write_summary"} \/ ScenarioCompleted) =>
            /\ issued % requests_per_minute = 0
            /\ issued >= requests_per_minute
            /\ issued <= scenarios[si].duration_minutes * requests_per_minute

\* C12: run_scenario looks at the end time only before a batch of
\* requests_per_minute requests, never between the requests of a batch: a batch
\* that has started is issued whole, also after the end time has passed. With
\* duration_minutes >= 1 and every sleep lasting at least 60/requests_per_minute
\* seconds, the requests of a completed scenario are a positive multiple of
\* requests_per_minute and at most duration_minutes * requests_per_minute, and
\* the call terminates: it returns, or an exception ends it.
C12_WholeBatchesAndTermination ==
    /\ []WholeBatches
    /\ (pc = "scenario_start") ~> (ScenarioCompleted \/ pc = "aborted")

\* the call has returned after a batch of two requests whose second request
\* was issued when the end time had passed
C12_Witness ==
    /\ ScenarioCompleted
    /\ scenarios[si].requests_per_minute = 2
    /\ Len(collected_data) = 2
    /\ collected_data[1].request_id < end_time
    /\ collected_data[2].request_id >= end_time

(***************************************************************************)
(* Direct calls of one function: the process does nothing else, args holds *)
(* the arguments and ret what the call returned.                           *)
(***************************************************************************)
IdleProcess ==
    /\ raised = "none"
    /\ mode = "none"
    /\ scenarios = <<>>
    /\ si = 0
    /\ req_i = 0
    /\ now = 0
    /\ end_time = 0
    /\ collected_data = <<>>
    /\ telemetry_data = None
    /\ summary = None
    /\ sink = <<>>
    /\ attempts = 0
    /\ late_wakeups = 0
    /\ pauses = 0

Return(value) ==
    /\ ret' = value
    /\ pc' = "returned"
    /\ UNCHANGED <<raised, mode, scenarios, si, req_i, now, end_time, collected_data,
                   telemetry_data, summary, sink, attempts, late_wakeups, pauses, args>>

DirectCallContext == [name |-> "baseline_operations"]

(***************************************************************************)
(* SpecCapture: capture_request_telemetry on one outcome of requests.get.  *)
(***************************************************************************)
JsonValues ==
    [type : {"invalid"}, has : {{}}]
        \cup [type : {"object", "array", "string"}, has : SUBSET {"version", "label"}]
        \cup [type : {"number", "null"}, has : {{}}]

\* the shortest text that decodes to a value of this kind
MinBodyLen(json) ==
    IF json.type = "invalid" THEN 0
    ELSE IF json.type = "number" THEN 1
    ELSE IF json.type = "null" THEN 4
    ELSE 2 + (IF "version" \in json.has THEN 9 ELSE 0) + (IF "label" \in json.has THEN 7 ELSE 0)

CaptureBodyLens == {0, 1, 25} \cup ((PreviewLen - 1)..(PreviewLen + MaxExtraChars))

CaptureContentTypes ==
    { <<"application/json", "">>, <<"application/json", "; charset=utf-8">>,
      <<"text/html", "; charset=utf-8">>, <<"Application/JSON", "">>, <<"", "">> }

CaptureResponses ==
    { [exc |-> "none", status_code |-> st, content_type |-> ct,
       body |-> [len |-> n, json |-> j], duration |-> d] :
        st \in {200, 404, 503}, ct \in CaptureContentTypes,
        n \in CaptureBodyLens, j \in JsonValues, d \in {4000, 3000040} }

CaptureFailures ==
    { f \in { [exc |-> e, duration |-> d] : e \in ExceptionKinds, d \in {1500, 10002000} } :
        isinstance(f.exc, "Timeout") => f.duration >= 10000000 }

CaptureArgs ==
    { [endpoint |-> ep, outcome |-> o] :
        ep \in {"/users", "/version"},
        o \in {r \in CaptureResponses : r.body.len >= MinBodyLen(r.body.json)} \cup CaptureFailures }

InitCapture ==
    /\ pc = "call_capture"
    /\ args \in CaptureArgs
    /\ ret = None
    /\ IdleProcess

CallCapture ==
    /\ pc = "call_capture"
    /\ Return(capture_request_telemetry(args.endpoint, DirectCallContext, now, args.outcome))

SpecCapture == InitCapture /\ [][CallCapture]_vars

\* C1 (as claimed): for every transport failure that is a timeout (read-timeout,
\* connect-timeout), the record returned by capture_request_telemetry has
\* health_score = 0, success = false, timeout = true and connection_error = false.
C1_TimeoutRecordFlags ==
    (pc = "returned" /\ args.outcome.exc \in {"ReadTimeout", "ConnectTimeout"})
        => /\ ret.raised = "none"
           /\ ret.value.metrics.health_score = 0
           /\ ret.value.metrics.success = FALSE
           /\ ret.value.metrics.timeout = TRUE
           /\ ret.value.metrics.connection_error = FALSE

\* the first 200 characters of a body of n characters
First200(n) == [i \in 1..(IF n < 200 THEN n ELSE 200) |-> Text(n)[i]]

\* C2 (as claimed): for every response, if the content-type is not JSON or the
\* body fails to decode as JSON, the record carries response_preview = the first
\* 200 characters of the raw body, and response_data otherwise; the decoding
\* attempt never raises out of capture_request_telemetry.
C2_PreviewUnlessJson ==
    (pc = "returned" /\ args.outcome.exc = "none")
        => /\ ret.raised = "none"
           /\ IF args.outcome.content_type[1] # "application/json"
                 \/ args.outcome.body.json.type = "invalid"
              THEN /\ "response_preview" \in DOMAIN ret.value
                   /\ ret.value.response_preview = First200(args.outcome.body.len)
              ELSE "response_data" \in DOMAIN ret.value

\* C2 (amended): for every response, capture_request_telemetry never raises; if
\* the content-type starts with application/json and the body fails to decode,
\* the record carries response_preview = the first 200 characters of the raw body
\* and no response_data; if the content-type is not JSON it carries neither; if
\* the body decodes it carries the decoded value as response_data.
C2_PreviewOnDecodeFailure ==
    (pc = "returned" /\ args.outcome.exc = "none")
        => /\ ret.raised = "none"
           /\ IF args.outcome.content_type[1] # "application/json"
              THEN /\ "response_preview" \notin DOMAIN ret.value
                   /\ "response_data" \notin DOMAIN ret.value
              ELSE IF args.outcome.body.json.type = "invalid"
              THEN /\ "response_preview" \in DOMAIN ret.value
                   /\ ret.value.response_preview = First200(args.outcome.body.len)
                   /\ "response_data" \notin DOMAIN ret.value
              ELSE /\ "response_data" \in DOMAIN ret.value
                   /\ ret.value.response_data = args.outcome.body.json

\* a JSON content-type, a body longer than the preview that does not decode
C2_Witness ==
    /\ pc = "returned"
    /\ args.outcome.exc = "none"
    /\ args.outcome.content_type[1] = "application/json"
    /\ args.outcome.body.json.type = "invalid"
    /\ args.outcome.body.len > 200
    /\ ret.raised = "none"
    /\ Len(ret.value.response_preview) = 200

(***************************************************************************)
(* SpecHealth: calculate_health_score on two (status_code, duration) pairs.*)
(***************************************************************************)
HealthStatuses == {100, 200, 302, 399, 400, 404, 499, 500, 503, 599}

\* durations around each threshold of the function, microseconds
HealthDurations == {0, 499999, 500000, 500001, 1000000, 1000001, 3000000, 3000001, 10002000}

HealthArgs == [status_code : HealthStatuses, duration : HealthDurations]

InitHealth ==
    /\ pc = "call_health"
    /\ args \in [a : HealthArgs, b : HealthArgs]
    /\ ret = None
    /\ IdleProcess

CallHealth ==
    /\ pc = "call_health"
    /\ Return([a |-> calculate_health_score(args.a.status_code, args.a.duration),
               b |-> calculate_health_score(args.b.status_code, args.b.duration)])

SpecHealth == InitHealth /\ [][CallHealth]_vars

\* the severity bucket of a status code: 0 for < 400, 1 for 4xx, 2 for >= 500
SeverityBucket(s) == IF s >= 500 THEN 2 ELSE IF s >= 400 THEN 1 ELSE 0

\* C7: calculate_health_score(s, t) = max(0, 100 - statusDeduction(s) -
\* latencyDeduction(t)) with statusDeduction 50 for s >= 500, 30 for 4xx, else 0
\* and latencyDeduction 30 for t > 3.0 s, 15 for t > 1.0 s, 5 for t > 0.5 s, else
\* 0; the score lies in [0, 100] and does not increase when the severity bucket
\* of the status or the elapsed time grows.
C7_HealthScore ==
    pc = "returned" =>
        LET s == args.a.status_code
            t == args.a.duration
            sd == IF s >= 500 THEN 50 ELSE IF s >= 400 /\ s < 500 THEN 30 ELSE 0
            ld == IF t > 3000000 THEN 30 ELSE IF t > 1000000 THEN 15
                  ELSE IF t > 500000 THEN 5 ELSE 0
        IN  /\ ret.a = (IF 100 - sd - ld > 0 THEN 100 - sd - ld ELSE 0)
            /\ ret.a \in 0..100
            /\ (SeverityBucket(s) <= SeverityBucket(args.b.status_code) /\ t <= args.b.duration)
                   => ret.a >= ret.b

\* a server error slower than 3 s scored against a success faster than 0.5 s
C7_Witness ==
    /\ pc = "returned"
    /\ args.a.status_code < 400 /\ args.a.duration <= 500000
    /\ args.b.status_code >= 500 /\ args.b.duration > 3000000
    /\ ret.a = 100
    /\ ret.b = 20

(***************************************************************************)
(* SpecMetrics: generate_scenario_metrics on a list of records, each one   *)
(* built by capture_request_telemetry.                                     *)
(***************************************************************************)
MetricsResponse(status, d) ==
    [exc |-> "none", status_code |-> status, content_type |-> HtmlType,
     body |-> TextBody(2), duration |-> d]

\* outcomes on both sides of the slow threshold (2.0 s) and of success
MetricsOutcomes ==
    << MetricsResponse(200, 4000),
       MetricsResponse(200, 2500000),
       MetricsResponse(404, 104000),
       MetricsResponse(503, 2000040),
       Failure("ReadTimeout"),
       Failure("ConnectionError") >>

MetricsRecord(k) ==
    capture_request_telemetry("/health", DirectCallContext, 0, MetricsOutcomes[k]).value

\* every list of at most MaxShortList records
ShortLists ==
    UNION { [1..n -> 1..Len(MetricsOutcomes)] : n \in 0..MaxShortList }

\* lengths at which the three percentile indices differ
LongLengths == {20, 21, 32}

\* lists of those lengths whose i-th record is outcome (a * i + b) mod 6
LongLists ==
    { [i \in 1..n |-> ((a * i + b) % Len(MetricsOutcomes)) + 1] :
        n \in LongLengths, a \in 0..(Len(MetricsOutcomes) - 1), b \in 0..(Len(MetricsOutcomes) - 1) }

\* lists of those lengths that hold one outcome except for their first two records
OutlierLists ==
    { [i \in 1..n |-> IF i = 1 THEN y ELSE IF i = 2 THEN z ELSE x] :
        n \in LongLengths, x \in DOMAIN MetricsOutcomes, y \in DOMAIN MetricsOutcomes,
        z \in DOMAIN MetricsOutcomes }

MetricsArgs ==
    { [i \in DOMAIN l |-> MetricsRecord(l[i])] : l \in ShortLists \cup LongLists \cup OutlierLists }

InitMetrics ==
    /\ pc = "call_metrics"
    /\ args \in MetricsArgs
    /\ ret = None
    /\ IdleProcess

CallMetrics ==
    /\ pc = "call_metrics"
    /\ Return(generate_scenario_metrics(args, DirectCallContext))

SpecMetrics == InitMetrics /\ [][CallMetrics]_vars

\* the number of records of the list whose success flag is false
FailedRecords == Cardinality({i \in DOMAIN args : args[i].metrics.success = FALSE})

\* the number of records of the list with elapsed seconds > 2.0
SlowRecords == Cardinality({i \in DOMAIN args : args[i].metrics.response_time_seconds > 2000000})

\* x is a / b rounded to the nearest integer
IsRounded(x, a, b) == (x * b - a) * 2 <= b /\ (a - x * b) * 2 <= b

\* C8 (as claimed): for N >= 1 records, error_rate = error_count / N with
\* error_count the number of records whose success flag is false, slow_rate =
\* slow_count / N with slow_count the number of records slower than 2.0 s, both
\* within [0, 1], and reliability_score = (1 - error_rate) * 100.  (Rates are in
\* units of 1/10000, the score in units of 1/100.)
C8_RatesExact ==
    (pc = "returned" /\ Len(args) >= 1)
        => /\ ret.raised = "none"
           /\ ret.value.metrics.error_count = FailedRecords
           /\ ret.value.metrics.slow_requests = SlowRecords
           /\ ret.value.metrics.error_rate * Len(args) = FailedRecords * 10000
           /\ ret.value.metrics.slow_rate * Len(args) = SlowRecords * 10000
           /\ ret.value.metrics.error_rate \in 0..10000
           /\ ret.value.metrics.slow_rate \in 0..10000
           /\ ret.value.operational_summary.reliability_score
                  = 10000 - ret.value.metrics.error_rate

\* C8 (amended): for N >= 1 records, error_rate is error_count / N rounded to 4
\* decimal places and slow_rate is slow_count / N rounded to 4 decimal places,
\* with error_count and slow_count as claimed, both rates within [0, 1], and
\* reliability_score is (1 - error_count / N) * 100 rounded to 2 decimal places.
C8_RatesRounded ==
    (pc = "returned" /\ Len(args) >= 1)
        => /\ ret.raised = "none"
           /\ ret.value.metrics.error_count = FailedRecords
           /\ ret.value.metrics.slow_requests = SlowRecords
           /\ IsRounded(ret.value.metrics.error_rate, FailedRecords * 10000, Len(args))
           /\ IsRounded(ret.value.metrics.slow_rate, SlowRecords * 10000, Len(args))
           /\ ret.value.metrics.error_rate \in 0..10000
           /\ ret.value.metrics.slow_rate \in 0..10000
           /\ IsRounded(ret.value.operational_summary.reliability_score,
                        (Len(args) - FailedRecords) * 10000, Len(args))

\* three records, one of them a transport error: error_rate 0.3333, score 66.67
C8_Witness ==
    /\ pc = "returned"
    /\ Len(args) = 3
    /\ FailedRecords = 1
    /\ \E i \in DOMAIN args : args[i].event_type = "http_request_error"
    /\ ret.value.metrics.error_rate = 3333
    /\ ret.value.operational_summary.reliability_score = 6667

\* C9: generate_scenario_metrics on an empty list returns a summary whose
\* error_rate, slow_rate, average response time, average health score and
\* p50/p95/p99 are all 0, and raises nothing (no division by zero, no index into
\* an empty sequence).
C9_EmptyListAllZero ==
    (pc = "returned" /\ args = <<>>)
        => /\ ret.raised = "none"
           /\ ret.value.metrics.error_rate = 0
           /\ ret.value.metrics.slow_rate = 0
           /\ ret.value.metrics.average_response_time_seconds = 0
           /\ ret.value.metrics.average_health_score = 0
           /\ ret.value.metrics.response_time_percentiles.p50_seconds = 0
           /\ ret.value.metrics.response_time_percentiles.p95_seconds = 0
           /\ ret.value.metrics.response_time_percentiles.p99_seconds = 0

\* the call on the empty list has returned a summary of zero requests
C9_Witness ==
    /\ pc = "returned"
    /\ args = <<>>
    /\ ret.raised = "none"
    /\ ret.value.metrics.total_requests = 0

\* v is the element at 0-based index k of the ascending order of the elapsed times
IsOrderStatistic(v, k) ==
    /\ \E i \in DOMAIN args : args[i].metrics.response_time_seconds = v
    /\ Cardinality({i \in DOMAIN args : args[i].metrics.response_time_seconds < v}) <= k
    /\ k < Cardinality({i \in DOMAIN args : args[i].metrics.response_time_seconds <= v})

\* C10: for a non-empty list of N records, p50, p95 and p99 are the elements at
\* indices floor(0.5 N), floor(0.95 N) and floor(0.99 N) of the ascending-sorted
\* elapsed times, each index lies within [0, N - 1], and p50 <= p95 <= p99.
C10_Percentiles ==
    (pc = "returned" /\ Len(args) >= 1)
        => LET N == Len(args)
               p == ret.value.metrics.response_time_percentiles
           IN  /\ ret.raised = "none"
               /\ \A q \in {50, 95, 99} : (q * N) \div 100 \in 0..(N - 1)
               /\ IsOrderStatistic(p.p50_seconds, (50 * N) \div 100)
               /\ IsOrderStatistic(p.p95_seconds, (95 * N) \div 100)
               /\ IsOrderStatistic(p.p99_seconds, (99 * N) \div 100)
               /\ p.p50_seconds <= p.p95_seconds
               /\ p.p95_seconds <= p.p99_seconds

\* 21 records in unsorted order whose three percentiles differ
C10_Witness ==
    /\ pc = "returned"
    /\ Len(args) = 21
    /\ \E i \in 1..20 : args[i].metrics.response_time_seconds > args[i + 1].metrics.response_time_seconds
    /\ ret.value.metrics.response_time_percentiles.p50_seconds
           < ret.value.metrics.response_time_percentiles.p95_seconds
    /\ ret.value.metrics.response_time_percentiles.p95_seconds
           < ret.value.metrics.response_time_percentiles.p99_seconds

====
